---- MODULE Spec2Model ----
(***************************************************************************)
(* The pattern-selection hook (usePatterns and its selectors) and the      *)
(* quote block's transform table, as state machines.                       *)
(*                                                                         *)
(* Conventions for JavaScript values:                                      *)
(*   - an object is a TLA+ record; a property that is undefined is a key   *)
(*     that is not in the record's DOMAIN (so hasOwnProperty is Has);      *)
(*   - an optional string argument that is undefined is Undefined;         *)
(*   - rich text is a sequence of runs [text, format]; the empty string is *)
(*     the empty sequence;                                                 *)
(*   - markup (post content, a pullquote's value) is a sequence of nodes:  *)
(*     block delimiters (comments) and elements;                           *)
(*   - taxonomy term ids are written as numerals in strings ("7") so that  *)
(*     a categories list can hold ids and slugs side by side.              *)
(***************************************************************************)
EXTENDS Integers, Sequences, FiniteSets, TLC

VARIABLES
    entityRecords,          \* core store: entity name -> records; no key = not resolved (null)
    resolving,              \* core store: entity names whose getEntityRecords is resolving
    editorSettings,         \* editor store: optional key defaultTemplatePartAreas
    settings,               \* edit-site store: optional keys for the two block-pattern settings
    restBlockPatterns,      \* core store: optional key patterns (getBlockPatterns)
    userPatternCategories,  \* core store: getUserPatternCategories()
    props,                  \* the arguments of the mounted usePatterns hook
    result,                 \* what the hook returned on its last run
    block,                  \* the block the transform table is applied to
    history                 \* the transforms applied so far, each with its source block

vars == <<entityRecords, resolving, editorSettings, settings, restBlockPatterns,
          userPatternCategories, props, result, block, history>>

hookVars == <<entityRecords, resolving, editorSettings, settings, restBlockPatterns,
              userPatternCategories, props, result>>

blockVars == <<block, history>>

-----------------------------------------------------------------------------
(* JavaScript values *)

Undefined == "<undefined>"

Null == "<null>"

EmptyObject == [k \in {} |-> <<>>]

Has(object, key) == key \in DOMAIN object

\* Truthiness of an optional string: undefined, null and '' are falsy.
Truthy(string) == string \notin {Undefined, Null, ""}

Range(list) == {list[i] : i \in DOMAIN list}

includes(list, value) == value \in Range(list)

\* Array.prototype.filter, given the indices at which the callback holds.
filter(list, kept) ==
    [k \in 1..Cardinality(kept) |->
        list[CHOOSE i \in kept : Cardinality({j \in kept : j <= i}) = k]]

-----------------------------------------------------------------------------
(* Blocks and markup: @wordpress/blocks *)

Run(text, format) == [text |-> text, format |-> format]

\* A JavaScript string used as rich text: one unformatted run, or nothing.
PlainText(text) == IF text = "" THEN <<>> ELSE <<Run(text, "")>>

RECURSIVE textContent(_)
textContent(richText) ==
    IF richText = <<>> THEN ""
    ELSE richText[1].text \o textContent(Tail(richText))

Opener(name) == [tag |-> "!--wp", data |-> name, content |-> <<>>]

Closer(name) == [tag |-> "!--/wp", data |-> name, content |-> <<>>]

Element(tag, content) == [tag |-> tag, data |-> "", content |-> content]

createBlock(name, attributes, innerBlocks) ==
    [name |-> name, attributes |-> attributes, innerBlocks |-> innerBlocks]

tagName(name) ==
    CASE name = "core/paragraph" -> "p"
      [] name = "core/heading" -> "h2"
      [] name = "core/quote" -> "blockquote"
      [] OTHER -> "div"

RECURSIVE serialize(_)
serialize(blocks) ==
    IF blocks = <<>> THEN <<>>
    ELSE LET b == blocks[1]
         IN  <<Opener(b.name)>>
             \o (IF Has(b.attributes, "content")
                 THEN <<Element(tagName(b.name), b.attributes.content)>>
                 ELSE <<>>)
             \o serialize(b.innerBlocks)
             \o <<Closer(b.name)>>
             \o serialize(Tail(blocks))

\* The parser on flat markup: a delimited element is a block of the delimiter's
\* name, anything else is a freeform block.
RECURSIVE parse(_)
parse(markup) ==
    IF markup = <<>> THEN <<>>
    ELSE IF /\ Len(markup) >= 3
            /\ markup[1].tag = "!--wp"
            /\ markup[3] = Closer(markup[1].data)
         THEN <<createBlock(markup[1].data, [content |-> markup[2].content], <<>>)>>
              \o parse(SubSeq(markup, 4, Len(markup)))
         ELSE <<createBlock("core/freeform", [content |-> markup[1].content], <<>>)>>
              \o parse(Tail(markup))

\* parseWithAttributeSchema( html, { source: 'query', selector, query: { content:
\* { source: 'text' } } } ): one object per matching element, in document order.
parseWithAttributeSchema(html, selector) ==
    LET matches == SelectSeq(html, LAMBDA node : node.tag = selector)
    IN  [i \in DOMAIN matches |-> [content |-> textContent(matches[i].content)]]

\* decodeEntities on the titles of the model.
decodeEntities(html) ==
    CASE html = "top &amp; tail" -> "top & tail"
      [] OTHER -> html

-----------------------------------------------------------------------------
(* ./utils and ./search-items *)

TEMPLATE_PARTS == "wp_template_part"

PATTERNS == "pattern"

USER_PATTERNS == "wp_block"

SYNC_TYPES == [full |-> "fully", unsynced |-> "unsynced"]

CORE_PATTERN_SOURCES ==
    {"core", "pattern-directory/core", "pattern-directory/featured",
     "pattern-directory/theme"}

\* items.findIndex( ( item ) => name === item.name ), counted from 1.
findIndexByName(items, name) ==
    IF \E i \in DOMAIN items : items[i].name = name
    THEN CHOOSE i \in DOMAIN items :
            /\ items[i].name = name
            /\ \A j \in 1..(i - 1) : items[j].name # name
    ELSE 0

filterOutDuplicatesByName(currentItem, index, items) ==
    index = findIndexByName(items, currentItem.name)

\* The search terms of an item: name, title, description and keywords.  Search
\* inputs and item texts of the model are single lower-case words, which the
\* normalisation of search-items leaves as they are.
searchTerms(item) ==
    {IF Has(item, "name") /\ Truthy(item.name) THEN item.name ELSE "", item.title,
     IF Has(item, "description") THEN item.description ELSE ""}
    \cup (IF Has(item, "keywords") THEN Range(item.keywords) ELSE {})

\* inCategory is config.hasCategory( item, config.categoryId ).
getItemSearchRank(item, searchInput, inCategory, onlyFilterByCategory) ==
    LET rank == IF inCategory THEN 1 ELSE 0
    IN  IF rank = 0 \/ onlyFilterByCategory THEN rank
        ELSE IF searchInput = item.title THEN rank + 30
        ELSE IF searchInput \in searchTerms(item) THEN rank + 10
        ELSE rank

\* hasCategory[i] is config.hasCategory( items[i], config.categoryId ): the
\* callback and the category id of the config, tabulated over the items.
searchItems(items, searchInput, hasCategory) ==
    LET onlyFilterByCategory == searchInput = ""
        threshold == IF onlyFilterByCategory THEN 0 ELSE 1
        rank == [i \in DOMAIN items |->
                    getItemSearchRank(items[i], searchInput, hasCategory[i],
                                      onlyFilterByCategory)]
        ranked == {i \in DOMAIN items : rank[i] > threshold}
    IN  IF onlyFilterByCategory THEN filter(items, ranked)
        ELSE filter(items, {i \in ranked : rank[i] = 31})
             \o filter(items, {i \in ranked : rank[i] = 11})

-----------------------------------------------------------------------------
(* use-patterns *)

EMPTY_PATTERN_LIST == <<>>

\* Faulty variant: || in place of &&.
createTemplatePartId_or(theme, slug) ==
    IF Truthy(theme) \/ Truthy(slug) THEN theme \o "//" \o slug ELSE Null

createTemplatePartId(theme, slug) ==
    IF Truthy(theme) /\ Truthy(slug) THEN theme \o "//" \o slug ELSE Null

templatePartToPattern(templatePart) ==
    [blocks |-> parse(templatePart.content.raw),
     categories |-> <<templatePart.area>>,
     description |-> IF Has(templatePart, "description")
                     THEN templatePart.description ELSE "",
     isCustom |-> Has(templatePart, "source") /\ templatePart.source = "custom",
     keywords |-> IF Has(templatePart, "keywords")
                  THEN templatePart.keywords ELSE <<>>,
     id |-> createTemplatePartId(templatePart.theme, templatePart.slug),
     name |-> createTemplatePartId(templatePart.theme, templatePart.slug),
     title |-> decodeEntities(templatePart.title.rendered),
     type |-> templatePart.type,
     templatePart |-> templatePart]

\* The areas selectTemplatePartsAsPatterns cross-checks against.
templatePartAreas(select) ==
    LET knownAreas == IF Has(select.editorSettings, "defaultTemplatePartAreas")
                      THEN select.editorSettings.defaultTemplatePartAreas
                      ELSE <<>>
    IN  [i \in DOMAIN knownAreas |-> knownAreas[i].area]

\* Faulty variant: orphaned template parts are not cross-checked against the areas.
templatePartHasCategory_noOrphans(select, item, category) ==
    item.templatePart.area = category

templatePartHasCategory(select, item, category) ==
    IF category # "uncategorized"
    THEN item.templatePart.area = category
    ELSE \/ item.templatePart.area = category
         \/ ~includes(templatePartAreas(select), item.templatePart.area)

selectTemplatePartsAsPatterns(select, categoryId, search) ==
    LET rawTemplateParts == IF Has(select.entityRecords, TEMPLATE_PARTS)
                            THEN select.entityRecords[TEMPLATE_PARTS]
                            ELSE EMPTY_PATTERN_LIST
        templateParts == [i \in DOMAIN rawTemplateParts |->
                             templatePartToPattern(rawTemplateParts[i])]
        isResolving == TEMPLATE_PARTS \in select.resolving
        patterns == searchItems(templateParts, search,
                                [i \in DOMAIN templateParts |->
                                    templatePartHasCategory(select, templateParts[i],
                                                            categoryId)])
    IN  [patterns |-> patterns, isResolving |-> isResolving]

\* pattern => ( { ...pattern, keywords, type, blocks } )
themePatternToPattern(pattern) ==
    [key \in DOMAIN pattern \cup {"keywords", "type", "blocks"} |->
        CASE key = "keywords" ->
                IF Has(pattern, "keywords") THEN pattern.keywords ELSE <<>>
          [] key = "type" -> "pattern"
          [] key = "blocks" -> parse(pattern.content)
          [] OTHER -> pattern[key]]

\* CORE_PATTERN_SOURCES.includes( pattern.source )
isCoreSourced(pattern) ==
    Has(pattern, "source") /\ pattern.source \in CORE_PATTERN_SOURCES

\* pattern.inserter === false
notInsertable(pattern) == Has(pattern, "inserter") /\ pattern.inserter = FALSE

\* Faulty variant: the inserter filter runs before the duplicates are filtered out.
selectThemePatterns_inserterFirst(select) ==
    LET blockPatterns ==
            IF Has(select.settings, "__experimentalAdditionalBlockPatterns")
            THEN select.settings.__experimentalAdditionalBlockPatterns
            ELSE IF Has(select.settings, "__experimentalBlockPatterns")
                 THEN select.settings.__experimentalBlockPatterns
                 ELSE <<>>
        restPatterns == IF Has(select.restBlockPatterns, "patterns")
                        THEN select.restBlockPatterns.patterns
                        ELSE <<>>
        all == blockPatterns \o restPatterns
        nonCore == filter(all, {i \in DOMAIN all : ~isCoreSourced(all[i])})
        insertable == filter(nonCore,
                             {i \in DOMAIN nonCore : ~notInsertable(nonCore[i])})
        unique == filter(insertable,
                         {i \in DOMAIN insertable :
                             filterOutDuplicatesByName(insertable[i], i, insertable)})
    IN  [patterns |-> [i \in DOMAIN unique |-> themePatternToPattern(unique[i])],
         isResolving |-> FALSE]

selectThemePatterns(select) ==
    LET blockPatterns ==
            IF Has(select.settings, "__experimentalAdditionalBlockPatterns")
            THEN select.settings.__experimentalAdditionalBlockPatterns
            ELSE IF Has(select.settings, "__experimentalBlockPatterns")
                 THEN select.settings.__experimentalBlockPatterns
                 ELSE <<>>
        restPatterns == IF Has(select.restBlockPatterns, "patterns")
                        THEN select.restBlockPatterns.patterns
                        ELSE <<>>
        all == blockPatterns \o restPatterns
        nonCore == filter(all, {i \in DOMAIN all : ~isCoreSourced(all[i])})
        unique == filter(nonCore,
                         {i \in DOMAIN nonCore :
                             filterOutDuplicatesByName(nonCore[i], i, nonCore)})
        insertable == filter(unique, {i \in DOMAIN unique : ~notInsertable(unique[i])})
    IN  [patterns |-> [i \in DOMAIN insertable |-> themePatternToPattern(insertable[i])],
         isResolving |-> FALSE]

\* Faulty variant: the categories are mapped and set whatever their number.
patternBlockToPattern_alwaysCategories(patternBlock, categories) ==
    LET slugOf(patternCategoryId) ==
            IF Has(categories, "patternCategoriesMap")
               /\ Has(categories.patternCategoriesMap, patternCategoryId)
            THEN categories.patternCategoriesMap[patternCategoryId].slug
            ELSE patternCategoryId
    IN  [blocks |-> parse(patternBlock.content.raw),
         categories |-> [i \in DOMAIN patternBlock.wp_pattern_category |->
                            slugOf(patternBlock.wp_pattern_category[i])],
         id |-> patternBlock.id,
         name |-> patternBlock.slug,
         syncStatus |-> IF Has(patternBlock, "wp_pattern_sync_status")
                           /\ Truthy(patternBlock.wp_pattern_sync_status)
                        THEN patternBlock.wp_pattern_sync_status
                        ELSE SYNC_TYPES.full,
         title |-> patternBlock.title.raw,
         type |-> USER_PATTERNS,
         patternBlock |-> patternBlock]

patternBlockToPattern(patternBlock, categories) ==
    LET base ==
            [blocks |-> parse(patternBlock.content.raw),
             id |-> patternBlock.id,
             name |-> patternBlock.slug,
             syncStatus |-> IF Has(patternBlock, "wp_pattern_sync_status")
                               /\ Truthy(patternBlock.wp_pattern_sync_status)
                            THEN patternBlock.wp_pattern_sync_status
                            ELSE SYNC_TYPES.full,
             title |-> patternBlock.title.raw,
             type |-> USER_PATTERNS,
             patternBlock |-> patternBlock]
        slugOf(patternCategoryId) ==
            IF Has(categories, "patternCategoriesMap")
               /\ Has(categories.patternCategoriesMap, patternCategoryId)
            THEN categories.patternCategoriesMap[patternCategoryId].slug
            ELSE patternCategoryId
    IN  IF Len(patternBlock.wp_pattern_category) > 0
        THEN base @@ [categories |->
                        [i \in DOMAIN patternBlock.wp_pattern_category |->
                            slugOf(patternBlock.wp_pattern_category[i])]]
        ELSE base

selectUserPatterns(select, search, syncStatus) ==
    LET categories == select.userPatternCategories
        mapped == IF Has(select.entityRecords, USER_PATTERNS)
                  THEN [i \in DOMAIN select.entityRecords[USER_PATTERNS] |->
                           patternBlockToPattern(select.entityRecords[USER_PATTERNS][i],
                                                 categories)]
                  ELSE EMPTY_PATTERN_LIST
        isResolving == USER_PATTERNS \in select.resolving
        synced == IF Truthy(syncStatus)
                  THEN SelectSeq(mapped, LAMBDA pattern : pattern.syncStatus = syncStatus)
                  ELSE mapped
        patterns == searchItems(synced, search, [i \in DOMAIN synced |-> TRUE])
    IN  [patterns |-> patterns, isResolving |-> isResolving,
         categories |-> categories.patternCategories]

\* Faulty variant: the sync status is not filtered on.
selectPatternsCandidates_anySyncStatus(select, syncStatus) ==
    selectThemePatterns(select).patterns
    \o selectUserPatterns(select, "", Undefined).patterns

\* The list selectPatterns hands to searchItems.
selectPatternsCandidates(select, syncStatus) ==
    LET themePatterns == selectThemePatterns(select).patterns
        userPatterns == selectUserPatterns(select, "", Undefined).patterns
        patterns == themePatterns \o userPatterns
    IN  IF Truthy(syncStatus)
        THEN SelectSeq(patterns,
                       LAMBDA pattern : Has(pattern, "syncStatus")
                                        /\ pattern.syncStatus = syncStatus)
        ELSE patterns

\* The hasCategory callback selectPatterns hands to searchItems.
selectPatternsHasCategory(categoryId, item, currentCategory) ==
    IF Truthy(categoryId)
    THEN Has(item, "categories") /\ includes(item.categories, currentCategory)
    ELSE ~Has(item, "categories")

selectPatterns(select, categoryId, search, syncStatus) ==
    LET patterns == selectPatternsCandidates(select, syncStatus)
    IN  [patterns |-> searchItems(patterns, search,
                                  [i \in DOMAIN patterns |->
                                      selectPatternsHasCategory(categoryId, patterns[i],
                                                                categoryId)]),
         isResolving |-> FALSE]

\* Faulty variant: the last branch is a plain else, so that an unrecognised category
\* type is answered like the user patterns.
usePatterns_elseUserPatterns(select, categoryType, categoryId, search, syncStatus) ==
    IF categoryType = TEMPLATE_PARTS
    THEN selectTemplatePartsAsPatterns(select, categoryId, search)
    ELSE IF categoryType = PATTERNS
         THEN selectPatterns(select, categoryId, search, syncStatus)
         ELSE selectUserPatterns(select, search, syncStatus)

usePatterns(select, categoryType, categoryId, search, syncStatus) ==
    IF categoryType = TEMPLATE_PARTS
    THEN selectTemplatePartsAsPatterns(select, categoryId, search)
    ELSE IF categoryType = PATTERNS
         THEN selectPatterns(select, categoryId, search, syncStatus)
         ELSE IF categoryType = USER_PATTERNS
              THEN selectUserPatterns(select, search, syncStatus)
              ELSE [patterns |-> EMPTY_PATTERN_LIST, isResolving |-> FALSE]

-----------------------------------------------------------------------------
(* quote/v2/transforms *)

\* transforms.from, blocks: [ 'core/group' ]
groupToQuote(attributes, innerBlocks) ==
    createBlock("core/quote", EmptyObject, innerBlocks)

\* Faulty variant: the citation is not handed on as attribution.
pullquoteToQuote_noAttribution(attributes) ==
    LET queried == parseWithAttributeSchema(attributes.value, "p")
    IN  createBlock("core/quote", EmptyObject,
                    [i \in DOMAIN queried |->
                        createBlock("core/paragraph",
                                    [content |-> PlainText(queried[i].content)],
                                    <<>>)])

\* transforms.from, blocks: [ 'core/pullquote' ]; an attribution that is
\* undefined is an attribute the new block does not have.
pullquoteToQuote(attributes) ==
    LET queried == parseWithAttributeSchema(attributes.value, "p")
    IN  createBlock("core/quote",
                    IF Has(attributes, "citation")
                    THEN [attribution |-> attributes.citation]
                    ELSE EmptyObject,
                    [i \in DOMAIN queried |->
                        createBlock("core/paragraph",
                                    [content |-> PlainText(queried[i].content)],
                                    <<>>)])

\* Faulty variant: the attribution is dropped instead of becoming a paragraph.
quoteToGroup_dropAttribution(attributes, innerBlocks) ==
    createBlock("core/group", EmptyObject, innerBlocks)

\* transforms.to, blocks: [ 'core/group' ]
quoteToGroup(attributes, innerBlocks) ==
    createBlock("core/group", EmptyObject,
                IF Has(attributes, "attribution") /\ attributes.attribution # <<>>
                THEN innerBlocks
                     \o <<createBlock("core/paragraph",
                                      [content |-> attributes.attribution], <<>>)>>
                ELSE innerBlocks)

\* Faulty variant: Array.prototype.some in place of every.
quoteToPullquoteIsMatch_some(attributes, quote) ==
    \E i \in DOMAIN quote.innerBlocks : quote.innerBlocks[i].name = "core/paragraph"

\* transforms.to, blocks: [ 'core/pullquote' ]
quoteToPullquoteIsMatch(attributes, quote) ==
    \A i \in DOMAIN quote.innerBlocks : quote.innerBlocks[i].name = "core/paragraph"

quoteToPullquote(attributes, innerBlocks) ==
    createBlock("core/pullquote",
                [value |-> serialize(innerBlocks)]
                @@ (IF Has(attributes, "attribution")
                    THEN [citation |-> attributes.attribution]
                    ELSE EmptyObject),
                <<>>)

-----------------------------------------------------------------------------
(* The data stores the hook selects from, and the hook's runs *)

\* The longest list of patterns a settings key or the REST list holds.
MaxPatterns == 1

Select ==
    [entityRecords |-> entityRecords,
     resolving |-> resolving,
     editorSettings |-> editorSettings,
     settings |-> settings,
     restBlockPatterns |-> restBlockPatterns,
     userPatternCategories |-> userPatternCategories]

\* useSelect: the selector runs on mount, on every change of its dependencies
\* and on every change of the stores.
useSelect(select, hookProps) ==
    usePatterns(select, hookProps.categoryType, hookProps.categoryId,
                hookProps.search, hookProps.syncStatus)

Commit(select, hookProps) ==
    /\ entityRecords' = select.entityRecords
    /\ resolving' = select.resolving
    /\ editorSettings' = select.editorSettings
    /\ settings' = select.settings
    /\ restBlockPatterns' = select.restBlockPatterns
    /\ userPatternCategories' = select.userPatternCategories
    /\ props' = hookProps
    /\ result' = useSelect(select, hookProps)
    /\ UNCHANGED blockVars

\* The component renders the hook with other arguments.
Render(Props) ==
    \E hookProps \in Props :
        /\ hookProps # props
        /\ Commit(Select, hookProps)

\* getEntityRecords starts (or, after an invalidation, restarts) its resolver.
StartResolution(name) ==
    /\ name \notin resolving
    /\ Commit([Select EXCEPT !.resolving = resolving \cup {name}], props)

\* The resolver finishes: the records are in the store.
FinishResolution(name, Lists) ==
    /\ name \in resolving
    /\ \E records \in Lists :
        Commit([Select EXCEPT !.resolving = resolving \ {name},
                              !.entityRecords = (name :> records) @@ entityRecords],
               props)

UpdateEditorSettings(Options) ==
    \E next \in Options :
        /\ next # editorSettings
        /\ Commit([Select EXCEPT !.editorSettings = next], props)

\* updateSettings defines one of the two block-pattern settings, empty so far.
DefinePatternSetting(key) ==
    /\ ~Has(settings, key)
    /\ Commit([Select EXCEPT !.settings = (key :> <<>>) @@ settings], props)

\* A pattern is registered under a block-pattern setting.
RegisterPattern(key, Records) ==
    /\ Has(settings, key)
    /\ Len(settings[key]) < MaxPatterns
    /\ \E pattern \in Records :
        Commit([Select EXCEPT !.settings =
                    (key :> Append(settings[key], pattern)) @@ settings],
               props)

\* The REST patterns arrive: first the (empty) list, then pattern by pattern.
ReceiveBlockPatterns(Records) ==
    \/ /\ ~Has(restBlockPatterns, "patterns")
       /\ Commit([Select EXCEPT !.restBlockPatterns = [patterns |-> <<>>]], props)
    \/ /\ Has(restBlockPatterns, "patterns")
       /\ Len(restBlockPatterns.patterns) < MaxPatterns
       /\ \E pattern \in Records :
            Commit([Select EXCEPT !.restBlockPatterns =
                        [patterns |-> Append(restBlockPatterns.patterns, pattern)]],
                   props)

ReceiveUserPatternCategories(Options) ==
    \E next \in Options :
        /\ next # userPatternCategories
        /\ Commit([Select EXCEPT !.userPatternCategories = next], props)

\* Nothing is resolved or set when the hook mounts.
EmptySelect ==
    [entityRecords |-> EmptyObject,
     resolving |-> {},
     editorSettings |-> EmptyObject,
     settings |-> EmptyObject,
     restBlockPatterns |-> EmptyObject,
     userPatternCategories |-> [patternCategories |-> <<>>]]

InitHook(Props) ==
    /\ entityRecords = EmptySelect.entityRecords
    /\ resolving = EmptySelect.resolving
    /\ editorSettings = EmptySelect.editorSettings
    /\ settings = EmptySelect.settings
    /\ restBlockPatterns = EmptySelect.restBlockPatterns
    /\ userPatternCategories = EmptySelect.userPatternCategories
    /\ props \in Props
    /\ result = useSelect(EmptySelect, props)

-----------------------------------------------------------------------------
(* The block editor applying the quote's transforms *)

Applied(name, from) == [transform |-> name, from |-> from]

MaxTransforms == 2

GroupToQuote ==
    /\ Len(history) < MaxTransforms
    /\ block.name = "core/group"
    /\ block' = groupToQuote(block.attributes, block.innerBlocks)
    /\ history' = Append(history, Applied("group->quote", block))
    /\ UNCHANGED hookVars

PullquoteToQuote ==
    /\ Len(history) < MaxTransforms
    /\ block.name = "core/pullquote"
    /\ block' = pullquoteToQuote(block.attributes)
    /\ history' = Append(history, Applied("pullquote->quote", block))
    /\ UNCHANGED hookVars

QuoteToGroup ==
    /\ Len(history) < MaxTransforms
    /\ block.name = "core/quote"
    /\ block' = quoteToGroup(block.attributes, block.innerBlocks)
    /\ history' = Append(history, Applied("quote->group", block))
    /\ UNCHANGED hookVars

QuoteToPullquote ==
    /\ Len(history) < MaxTransforms
    /\ block.name = "core/quote"
    /\ quoteToPullquoteIsMatch(block.attributes, block)
    /\ block' = quoteToPullquote(block.attributes, block.innerBlocks)
    /\ history' = Append(history, Applied("quote->pullquote", block))
    /\ UNCHANGED hookVars

-----------------------------------------------------------------------------
(* The inputs of the model *)

BoundedSeq(S, n) == UNION {[1..k -> S] : k \in 0..n}

AtMostOne(S) == {<<>>} \cup {<<x>> : x \in S}

Paragraph(content) == createBlock("core/paragraph", [content |-> content], <<>>)

Heading(content) == createBlock("core/heading", [content |-> content], <<>>)

HookProps(Types, Ids, Searches, SyncStatuses) ==
    [categoryType : Types, categoryId : Ids, search : Searches,
     syncStatus : SyncStatuses]

IdleBlock == createBlock("core/quote", EmptyObject, <<>>)

IdleProps ==
    [categoryType |-> PATTERNS, categoryId |-> Undefined, search |-> "",
     syncStatus |-> Undefined]

(* Template parts *)

Areas == {"header", "uncategorized", "sidebar"}

TemplatePart(theme, slug, area, source, optional) ==
    [theme |-> theme, slug |-> slug, area |-> area, source |-> source,
     type |-> TEMPLATE_PARTS,
     title |-> [rendered |-> "top &amp; tail"],
     content |-> [raw |-> serialize(<<Paragraph(<<Run("a", "")>>)>>)]]
    @@ optional

TemplatePartRecords ==
    {TemplatePart(theme, slug, area, source, keywords @@ description) :
        theme \in {"", "twentytwenty"}, slug \in {"", "header"}, area \in Areas,
        source \in {"custom", "theme"},
        keywords \in {EmptyObject, [keywords |-> <<"nav">>]},
        description \in {EmptyObject, [description |-> "main"]}}

\* The editor's default areas: not set, header only, and WordPress's own
\* defaults, which list the general area under the name 'uncategorized'.
AreaSettings ==
    {EmptyObject,
     [defaultTemplatePartAreas |-> <<[area |-> "header"]>>],
     [defaultTemplatePartAreas |-> <<[area |-> "uncategorized"], [area |-> "header"]>>]}

TemplatePartProps ==
    HookProps({TEMPLATE_PARTS}, {Undefined} \cup Areas, {"", "nav"}, {Undefined})

(* User patterns *)

MaxCategories == 2

CategoryIds == {"7", "8"}

UserPattern(id, slug, categoryIds, optional) ==
    [id |-> id, slug |-> slug,
     title |-> [raw |-> "mine"],
     content |-> [raw |-> serialize(<<Paragraph(<<Run("a", "")>>)>>)],
     wp_pattern_category |-> categoryIds]
    @@ optional

SyncStatusMeta ==
    {EmptyObject} \cup {[wp_pattern_sync_status |-> status] :
                          status \in {"", SYNC_TYPES.unsynced, SYNC_TYPES.full}}

UserPatternRecords ==
    {UserPattern(key[1], key[2], categoryIds, meta) :
        key \in {<<101, "my-pattern">>, <<102, "other-pattern">>},
        categoryIds \in BoundedSeq(CategoryIds, MaxCategories),
        meta \in SyncStatusMeta}

Category(id, slug) == [id |-> id, slug |-> slug, label |-> slug]

\* getUserPatternCategories(): no map, a map that knows term 7, one that knows both.
CategoryStates ==
    {[patternCategories |-> <<>>],
     [patternCategories |-> <<Category("7", "text")>>,
      patternCategoriesMap |-> ("7" :> Category("7", "text"))],
     [patternCategories |-> <<Category("7", "text"), Category("8", "header")>>,
      patternCategoriesMap |-> ("7" :> Category("7", "text"))
                               @@ ("8" :> Category("8", "header"))]}

UserPatternProps ==
    HookProps({USER_PATTERNS}, {Undefined}, {"", "mine"},
              {Undefined, SYNC_TYPES.unsynced, SYNC_TYPES.full})

(* Theme patterns *)

ThemePattern(name, optional) ==
    [name |-> name, title |-> name,
     content |-> serialize(<<Paragraph(<<Run("a", "")>>)>>)]
    @@ optional

\* Pattern 'hero' comes with keywords, pattern 'footer' without.
ThemePatternRecords ==
    {ThemePattern(name[1], name[2] @@ source @@ inserter) :
        name \in {<<"hero", [keywords |-> <<"banner">>]>>, <<"footer", EmptyObject>>},
        source \in {EmptyObject, [source |-> "core"]},
        inserter \in {EmptyObject, [inserter |-> FALSE]}}

ThemePatternProps == HookProps({PATTERNS}, {Undefined}, {"", "banner"}, {Undefined})

(* Theme and user patterns side by side *)

CategorisedThemePatterns ==
    {ThemePattern("hero", [keywords |-> <<"banner">>, categories |-> <<"header">>]),
     ThemePattern("footer", EmptyObject)}

CategorisedUserPatterns ==
    {UserPattern(101, "my-pattern", categoryIds, meta) :
        categoryIds \in {<<>>, <<"8">>},
        meta \in {EmptyObject, [wp_pattern_sync_status |-> SYNC_TYPES.unsynced]}}

PatternProps ==
    HookProps({PATTERNS}, {Undefined, "header", "text"}, {"", "mine"},
              {Undefined, SYNC_TYPES.unsynced, SYNC_TYPES.full})

(* All category types *)

SomeTemplateParts ==
    {TemplatePart("twentytwenty", "header", "header", "theme",
                  [keywords |-> <<"nav">>]),
     TemplatePart("", "sidebar", "sidebar", "custom", EmptyObject)}

SomeUserPatterns ==
    {UserPattern(101, "my-pattern", <<>>, EmptyObject),
     UserPattern(102, "other-pattern", <<"8">>,
                 [wp_pattern_sync_status |-> SYNC_TYPES.unsynced])}

AllProps ==
    HookProps({TEMPLATE_PARTS, PATTERNS, USER_PATTERNS, "wp_template"},
              {Undefined, "header"}, {"", "nav"}, {Undefined, SYNC_TYPES.unsynced})

(* Blocks the transforms are applied to *)

MaxInnerBlocks == 2

RichTexts == {<<Run("a", "")>>, <<Run("b", "em"), Run("c", "")>>}

Attributions == {EmptyObject} \cup {[attribution |-> text] : text \in {<<>>} \cup RichTexts}

Citations == {EmptyObject} \cup {[citation |-> text] : text \in {<<>>} \cup RichTexts}

InnerBlockChoices ==
    {Paragraph(content) : content \in RichTexts} \cup {Heading(<<Run("h", "")>>)}

\* The nodes of a pullquote's value: paragraphs, and other elements.
ValueNodes ==
    {Element("p", content) : content \in RichTexts} \cup {Element("h2", <<Run("h", "")>>)}

QuoteBlocks ==
    {createBlock("core/quote", attributes, innerBlocks) :
        attributes \in Attributions,
        innerBlocks \in BoundedSeq(InnerBlockChoices, MaxInnerBlocks)}

GroupBlocks ==
    {createBlock("core/group", EmptyObject, innerBlocks) :
        innerBlocks \in BoundedSeq(InnerBlockChoices, MaxInnerBlocks)}

PullquoteBlocks ==
    {createBlock("core/pullquote", [value |-> value] @@ citation, <<>>) :
        value \in BoundedSeq(ValueNodes, MaxInnerBlocks),
        citation \in Citations}

-----------------------------------------------------------------------------
(* Specifications *)

\* The hook under every category type.
Init ==
    /\ InitHook(AllProps)
    /\ block = IdleBlock
    /\ history = <<>>

Next ==
    \/ Render(AllProps)
    \/ StartResolution(TEMPLATE_PARTS)
    \/ FinishResolution(TEMPLATE_PARTS, AtMostOne(SomeTemplateParts))
    \/ StartResolution(USER_PATTERNS)
    \/ FinishResolution(USER_PATTERNS, AtMostOne(SomeUserPatterns))
    \/ DefinePatternSetting("__experimentalAdditionalBlockPatterns")
    \/ DefinePatternSetting("__experimentalBlockPatterns")
    \/ RegisterPattern("__experimentalAdditionalBlockPatterns",
                       {ThemePattern("footer", EmptyObject)})
    \/ RegisterPattern("__experimentalBlockPatterns",
                       {ThemePattern("hero", [categories |-> <<"header">>])})
    \/ ReceiveBlockPatterns({ThemePattern("footer", [keywords |-> <<"nav">>])})

Spec == Init /\ [][Next]_vars

\* The hook on theme and user patterns.
InitPatterns ==
    /\ InitHook(PatternProps)
    /\ block = IdleBlock
    /\ history = <<>>

NextPatterns ==
    \/ Render(PatternProps)
    \/ DefinePatternSetting("__experimentalBlockPatterns")
    \/ RegisterPattern("__experimentalBlockPatterns", CategorisedThemePatterns)
    \/ StartResolution(USER_PATTERNS)
    \/ FinishResolution(USER_PATTERNS,
                        BoundedSeq(CategorisedUserPatterns, MaxPatterns))
    \/ ReceiveUserPatternCategories(CategoryStates)

SpecPatterns == InitPatterns /\ [][NextPatterns]_vars

\* The quote's transforms.
InitTransforms ==
    /\ InitHook({IdleProps})
    /\ block \in QuoteBlocks \cup GroupBlocks \cup PullquoteBlocks
    /\ history = <<>>

NextTransforms ==
    \/ GroupToQuote
    \/ PullquoteToQuote
    \/ QuoteToGroup
    \/ QuoteToPullquote

SpecTransforms == InitTransforms /\ [][NextTransforms]_vars

InitTemplateParts ==
    /\ InitHook(TemplatePartProps)
    /\ block = IdleBlock
    /\ history = <<>>

NextTemplateParts ==
    \/ Render(TemplatePartProps)
    \/ StartResolution(TEMPLATE_PARTS)
    \/ FinishResolution(TEMPLATE_PARTS, AtMostOne(TemplatePartRecords))
    \/ UpdateEditorSettings(AreaSettings)

SpecTemplateParts == InitTemplateParts /\ [][NextTemplateParts]_vars

InitUserPatterns ==
    /\ InitHook(UserPatternProps)
    /\ block = IdleBlock
    /\ history = <<>>

NextUserPatterns ==
    \/ Render(UserPatternProps)
    \/ StartResolution(USER_PATTERNS)
    \/ FinishResolution(USER_PATTERNS, AtMostOne(UserPatternRecords))
    \/ ReceiveUserPatternCategories(CategoryStates)

SpecUserPatterns == InitUserPatterns /\ [][NextUserPatterns]_vars

InitThemePatterns ==
    /\ InitHook(ThemePatternProps)
    /\ block = IdleBlock
    /\ history = <<>>

NextThemePatterns ==
    \/ Render(ThemePatternProps)
    \/ DefinePatternSetting("__experimentalAdditionalBlockPatterns")
    \/ DefinePatternSetting("__experimentalBlockPatterns")
    \/ RegisterPattern("__experimentalAdditionalBlockPatterns", ThemePatternRecords)
    \/ RegisterPattern("__experimentalBlockPatterns",
                       {ThemePattern("footer", EmptyObject)})
    \/ ReceiveBlockPatterns(ThemePatternRecords)

SpecThemePatterns == InitThemePatterns /\ [][NextThemePatterns]_vars

-----------------------------------------------------------------------------
(* Properties of the transforms *)

LastApplied == history[Len(history)]

JustApplied(name) == history # <<>> /\ LastApplied.transform = name

\* Two transforms in a row, the second one just now.
RoundTrip(first, second) ==
    /\ Len(history) >= 2
    /\ history[Len(history) - 1].transform = first
    /\ LastApplied.transform = second

AllParagraphs(blocks) == {blocks[i].name : i \in DOMAIN blocks} \subseteq {"core/paragraph"}

\* Attribute `to` of one block is attribute `from` of the other: both undefined,
\* or both defined and equal.
SameAttribute(a, to, b, from) ==
    /\ Has(a, to) <=> Has(b, from)
    /\ Has(a, to) => a[to] = b[from]

NoAttribution(quote) ==
    ~(Has(quote.attributes, "attribution") /\ quote.attributes.attribution # <<>>)

\* C3: the quote-to-pullquote transform is offered exactly for the quotes whose
\* inner blocks are all paragraphs (a quote without inner blocks included), and
\* the pullquote it makes has the quote's attribution as citation, the
\* serialised inner blocks (delimiter, p element, delimiter for each paragraph)
\* as value, and no inner blocks.
C3_PullquoteOfferedAndBuilt ==
    /\ (block.name = "core/quote" /\ Len(history) < MaxTransforms)
            => (ENABLED QuoteToPullquote <=> AllParagraphs(block.innerBlocks))
    /\ JustApplied("quote->pullquote") =>
        LET quote == LastApplied.from
            inner == quote.innerBlocks
        IN  /\ AllParagraphs(inner)
            /\ block.name = "core/pullquote"
            /\ SameAttribute(block.attributes, "citation", quote.attributes, "attribution")
            /\ block.attributes.value = serialize(inner)
            /\ Len(block.attributes.value) = 3 * Len(inner)
            /\ \A i \in DOMAIN inner :
                /\ block.attributes.value[3 * i - 2] = Opener("core/paragraph")
                /\ block.attributes.value[3 * i - 1]
                        = Element("p", inner[i].attributes.content)
                /\ block.attributes.value[3 * i] = Closer("core/paragraph")
            /\ block.innerBlocks = <<>>

C3_Witness ==
    /\ JustApplied("quote->pullquote")
    /\ Len(LastApplied.from.innerBlocks) = 2
    /\ Has(LastApplied.from.attributes, "attribution")
    /\ LastApplied.from.attributes.attribution # <<>>

\* C9: quote to group keeps the inner blocks in order and appends exactly one
\* paragraph holding the attribution when that is non-empty; group to quote
\* keeps the inner blocks and gives no attribution; so quote -> group -> quote
\* returns the inner blocks unchanged for a quote without attribution and one
\* block longer, without attribution, otherwise.
C9_GroupConversionsKeepInnerBlocks ==
    /\ JustApplied("quote->group") =>
        LET quote == LastApplied.from
        IN  /\ block.name = "core/group"
            /\ block.innerBlocks =
                IF NoAttribution(quote) THEN quote.innerBlocks
                ELSE Append(quote.innerBlocks, Paragraph(quote.attributes.attribution))
    /\ JustApplied("group->quote") =>
        /\ block.name = "core/quote"
        /\ block.innerBlocks = LastApplied.from.innerBlocks
        /\ NoAttribution(block)
    /\ RoundTrip("quote->group", "group->quote") =>
        LET quote == history[Len(history) - 1].from
        IN  /\ NoAttribution(block)
            /\ NoAttribution(quote) => block.innerBlocks = quote.innerBlocks
            /\ ~NoAttribution(quote) =>
                /\ Len(block.innerBlocks) = Len(quote.innerBlocks) + 1
                /\ SubSeq(block.innerBlocks, 1, Len(quote.innerBlocks)) = quote.innerBlocks

C9_Witness ==
    /\ RoundTrip("quote->group", "group->quote")
    /\ ~NoAttribution(history[Len(history) - 1].from)
    /\ Len(block.innerBlocks) = 3

\* The p elements of a value, in document order.
PElements(value) == SelectSeq(value, LAMBDA node : node.tag = "p")

\* C10: pullquote to quote gives the citation as attribution and one paragraph
\* per p element of the value, in order, with the element's text as content;
\* that quote is offered the transform to pullquote, and transforming it back
\* gives the original citation.
C10_PullquoteRoundTripKeepsCitation ==
    /\ block.name = "core/pullquote" /\ Len(history) < MaxTransforms
            => ENABLED PullquoteToQuote
    /\ JustApplied("pullquote->quote") =>
        LET pullquote == LastApplied.from
            elements == PElements(pullquote.attributes.value)
        IN  /\ block.name = "core/quote"
            /\ SameAttribute(block.attributes, "attribution",
                             pullquote.attributes, "citation")
            /\ Len(block.innerBlocks) = Len(elements)
            /\ \A i \in DOMAIN elements :
                /\ block.innerBlocks[i].name = "core/paragraph"
                /\ textContent(block.innerBlocks[i].attributes.content)
                        = textContent(elements[i].content)
                /\ \A k \in DOMAIN block.innerBlocks[i].attributes.content :
                        block.innerBlocks[i].attributes.content[k].format = ""
            /\ quoteToPullquoteIsMatch(block.attributes, block)
            /\ Len(history) < MaxTransforms => ENABLED QuoteToPullquote
    /\ RoundTrip("pullquote->quote", "quote->pullquote") =>
        /\ block.name = "core/pullquote"
        /\ SameAttribute(block.attributes, "citation",
                         history[Len(history) - 1].from.attributes, "citation")

C10_Witness ==
    /\ RoundTrip("pullquote->quote", "quote->pullquote")
    /\ Has(block.attributes, "citation")
    /\ block.attributes.citation # <<>>
    /\ Len(history[Len(history) - 1].from.attributes.value) = 2
    /\ Len(PElements(history[Len(history) - 1].from.attributes.value)) = 1

-----------------------------------------------------------------------------
(* Properties of the hook on template parts *)

\* The records getEntityRecords returns for an entity, none while it returns null.
Stored(name) == IF Has(entityRecords, name) THEN entityRecords[name] ELSE <<>>

KnownAreas ==
    IF Has(editorSettings, "defaultTemplatePartAreas")
    THEN {editorSettings.defaultTemplatePartAreas[i].area :
            i \in DOMAIN editorSettings.defaultTemplatePartAreas}
    ELSE {}

TemplatePartConsistent(pattern, templatePart) ==
    /\ pattern.id = pattern.name
    /\ IF templatePart.theme # "" /\ templatePart.slug # ""
       THEN pattern.id = templatePart.theme \o "//" \o templatePart.slug
       ELSE pattern.id = Null
    /\ pattern.categories = <<templatePart.area>>
    /\ pattern.isCustom <=> templatePart.source = "custom"
    /\ pattern.type = templatePart.type
    /\ pattern.keywords =
        IF Has(templatePart, "keywords") THEN templatePart.keywords ELSE <<>>
    /\ pattern.description =
        IF Has(templatePart, "description") THEN templatePart.description ELSE ""
    /\ pattern.templatePart = templatePart

\* C4: the pattern derived from a template-part record has id = name = theme
\* '//' slug when both are non-empty and null otherwise, categories [area],
\* isCustom exactly for source 'custom', the record's type, the record's
\* keywords and description or [] and '', and the record as templatePart.
C4_TemplatePartFieldsConsistent ==
    /\ \A i \in DOMAIN Stored(TEMPLATE_PARTS) :
        TemplatePartConsistent(templatePartToPattern(Stored(TEMPLATE_PARTS)[i]),
                               Stored(TEMPLATE_PARTS)[i])
    /\ props.categoryType = TEMPLATE_PARTS =>
        \A i \in DOMAIN result.patterns :
            /\ result.patterns[i].templatePart \in Range(Stored(TEMPLATE_PARTS))
            /\ TemplatePartConsistent(result.patterns[i],
                                      result.patterns[i].templatePart)

C4_Witness ==
    /\ props.categoryType = TEMPLATE_PARTS
    /\ result.patterns # <<>>
    /\ result.patterns[1].id = "twentytwenty//header"
    /\ result.patterns[1].isCustom
    /\ result.patterns[1].keywords = <<>>
    /\ result.patterns[1].description = "main"

\* What the claim says of the category predicate, for one template part.
InCategory(area, category) ==
    IF category # "uncategorized"
    THEN area = category
    ELSE area = "uncategorized" \/ area \notin KnownAreas

CategoryPredicateAsClaimed ==
    /\ \A i \in DOMAIN Stored(TEMPLATE_PARTS) :
        LET item == templatePartToPattern(Stored(TEMPLATE_PARTS)[i])
            area == Stored(TEMPLATE_PARTS)[i].area
        IN  /\ \A category \in Areas \cup {Undefined} :
                templatePartHasCategory(Select, item, category)
                    <=> InCategory(area, category)
            /\ \/ templatePartHasCategory(Select, item, area)
               \/ templatePartHasCategory(Select, item, "uncategorized")
    /\ props.categoryType = TEMPLATE_PARTS =>
        /\ \A i \in DOMAIN result.patterns :
            InCategory(result.patterns[i].templatePart.area, props.categoryId)
        /\ props.search = "" =>
            \A i \in DOMAIN Stored(TEMPLATE_PARTS) :
                InCategory(Stored(TEMPLATE_PARTS)[i].area, props.categoryId)
                    => \E k \in DOMAIN result.patterns :
                        result.patterns[k].templatePart = Stored(TEMPLATE_PARTS)[i]

\* C6 as stated: the predicate is as claimed, and a template part whose area is
\* a known area is never matched by 'uncategorized'.
C6_Original ==
    /\ CategoryPredicateAsClaimed
    /\ \A i \in DOMAIN Stored(TEMPLATE_PARTS) :
        Stored(TEMPLATE_PARTS)[i].area \in KnownAreas =>
            ~templatePartHasCategory(Select,
                                     templatePartToPattern(Stored(TEMPLATE_PARTS)[i]),
                                     "uncategorized")

\* C6, amended: the category predicate handed to the search holds for a
\* category other than 'uncategorized' exactly when the area equals it, and for
\* 'uncategorized' exactly when the area is 'uncategorized' or not a known area;
\* a template part whose area is a known area other than 'uncategorized' is
\* never matched by 'uncategorized', and every template part is matched by its
\* own area or by 'uncategorized'.
C6_OrphansAreUncategorized ==
    /\ CategoryPredicateAsClaimed
    /\ \A i \in DOMAIN Stored(TEMPLATE_PARTS) :
        Stored(TEMPLATE_PARTS)[i].area \in KnownAreas \ {"uncategorized"} =>
            ~templatePartHasCategory(Select,
                                     templatePartToPattern(Stored(TEMPLATE_PARTS)[i]),
                                     "uncategorized")

\* An orphaned template part is listed under 'uncategorized'.
C6_Witness ==
    /\ props.categoryType = TEMPLATE_PARTS
    /\ props.categoryId = "uncategorized"
    /\ KnownAreas = {"header"}
    /\ result.patterns # <<>>
    /\ result.patterns[1].templatePart.area = "sidebar"

-----------------------------------------------------------------------------
(* Properties of the hook on user patterns *)

UserPatternConsistent(pattern, record) ==
    /\ pattern.id = record.id
    /\ pattern.name = record.slug
    /\ pattern.type = USER_PATTERNS
    /\ pattern.syncStatus =
        IF Has(record, "wp_pattern_sync_status") /\ record.wp_pattern_sync_status # ""
        THEN record.wp_pattern_sync_status
        ELSE SYNC_TYPES.full
    /\ Has(pattern, "categories") <=> record.wp_pattern_category # <<>>
    /\ Has(pattern, "categories") =>
        /\ Len(pattern.categories) = Len(record.wp_pattern_category)
        /\ \A i \in DOMAIN record.wp_pattern_category :
            LET id == record.wp_pattern_category[i]
            IN  pattern.categories[i] =
                    IF Has(userPatternCategories, "patternCategoriesMap")
                       /\ id \in DOMAIN userPatternCategories.patternCategoriesMap
                    THEN userPatternCategories.patternCategoriesMap[id].slug
                    ELSE id

\* C5: the pattern derived from a user-pattern record has the record's id, its
\* slug as name, the user-pattern type, the record's sync status or the
\* fully-synced default, and the record's categories in order, each id replaced
\* by its slug in the category map and kept when the map is missing or does not
\* know it; without categories on the record the field is absent.
C5_UserPatternFieldsConsistent ==
    /\ \A i \in DOMAIN Stored(USER_PATTERNS) :
        UserPatternConsistent(
            patternBlockToPattern(Stored(USER_PATTERNS)[i], userPatternCategories),
            Stored(USER_PATTERNS)[i])
    /\ props.categoryType = USER_PATTERNS =>
        \A i \in DOMAIN result.patterns :
            /\ result.patterns[i].patternBlock \in Range(Stored(USER_PATTERNS))
            /\ UserPatternConsistent(result.patterns[i], result.patterns[i].patternBlock)

\* A returned pattern with a mapped and an unmapped category, in that order.
C5_Witness ==
    /\ props.categoryType = USER_PATTERNS
    /\ result.patterns # <<>>
    /\ Has(result.patterns[1], "categories")
    /\ result.patterns[1].categories = <<"text", "8">>
    /\ ~Has(result.patterns[1].patternBlock, "wp_pattern_sync_status")
    /\ result.patterns[1].syncStatus = SYNC_TYPES.full

-----------------------------------------------------------------------------
(* Properties of the theme pattern list *)

\* The settings-provided patterns followed by the REST-provided ones.
ProvidedPatterns ==
    (IF Has(settings, "__experimentalAdditionalBlockPatterns")
     THEN settings.__experimentalAdditionalBlockPatterns
     ELSE IF Has(settings, "__experimentalBlockPatterns")
          THEN settings.__experimentalBlockPatterns
          ELSE <<>>)
    \o (IF Has(restBlockPatterns, "patterns") THEN restBlockPatterns.patterns ELSE <<>>)

FromCore(pattern) == Has(pattern, "source") /\ pattern.source \in CORE_PATTERN_SOURCES

InserterOff(pattern) == Has(pattern, "inserter") /\ pattern.inserter = FALSE

\* Position i holds the first non-core pattern of its name.
FirstOfItsName(i) ==
    \A j \in 1..(i - 1) :
        ~FromCore(ProvidedPatterns[j]) => ProvidedPatterns[j].name # ProvidedPatterns[i].name

KeptPositions ==
    {i \in DOMAIN ProvidedPatterns :
        /\ ~FromCore(ProvidedPatterns[i])
        /\ FirstOfItsName(i)
        /\ ~InserterOff(ProvidedPatterns[i])}

KthKept(k) == CHOOSE i \in KeptPositions : Cardinality({j \in KeptPositions : j <= i}) = k

\* C7: the theme pattern list is the provided patterns (settings, additional
\* before standard, then REST) of which exactly those are kept, in order, that
\* are not core-sourced, are the first non-core pattern of their name and do
\* not have inserter false; so no name occurs twice, no kept pattern is
\* core-sourced or has inserter false, each has type 'pattern' and a keywords
\* list, and a name whose first occurrence has inserter false is absent.
C7_ThemePatternList ==
    LET theme == selectThemePatterns(Select).patterns
    IN  /\ Len(theme) = Cardinality(KeptPositions)
        /\ \A k \in DOMAIN theme :
            LET provided == ProvidedPatterns[KthKept(k)]
            IN  /\ \A key \in DOMAIN provided : theme[k][key] = provided[key]
                /\ theme[k].type = "pattern"
                /\ Has(theme[k], "keywords")
                /\ ~Has(provided, "keywords") => theme[k].keywords = <<>>
                /\ ~FromCore(theme[k])
                /\ ~InserterOff(theme[k])
        /\ \A k, l \in DOMAIN theme : theme[k].name = theme[l].name => k = l
        /\ \A i \in DOMAIN ProvidedPatterns :
            (~FromCore(ProvidedPatterns[i]) /\ FirstOfItsName(i)
             /\ InserterOff(ProvidedPatterns[i]))
                => \A k \in DOMAIN theme : theme[k].name # ProvidedPatterns[i].name
        /\ (props.categoryType = PATTERNS /\ props.search = "")
                => result.patterns = theme

\* A name whose first occurrence has inserter false and whose later occurrence
\* is insertable: the list is empty.
C7_Witness ==
    /\ Len(ProvidedPatterns) = 2
    /\ ProvidedPatterns[1].name = ProvidedPatterns[2].name
    /\ ~FromCore(ProvidedPatterns[1]) /\ InserterOff(ProvidedPatterns[1])
    /\ ~FromCore(ProvidedPatterns[2]) /\ ~InserterOff(ProvidedPatterns[2])
    /\ props.search = ""
    /\ result.patterns = <<>>

-----------------------------------------------------------------------------
(* Properties of the hook on theme and user patterns together *)

\* The sync status the hook gives a user-pattern record.
SyncStatusOf(record) ==
    IF Has(record, "wp_pattern_sync_status") /\ record.wp_pattern_sync_status # ""
    THEN record.wp_pattern_sync_status
    ELSE SYNC_TYPES.full

Given(argument) == argument \notin {Undefined, ""}

\* What the claim says of selectPatterns' category predicate.
InPatternCategory(pattern, categoryId) ==
    IF Given(categoryId)
    THEN Has(pattern, "categories")
         /\ \E i \in DOMAIN pattern.categories : pattern.categories[i] = categoryId
    ELSE ~Has(pattern, "categories")

\* C8: selectPatterns' candidates are the theme patterns followed by the user
\* patterns; with a sync status given only the patterns of exactly that status
\* are passed on, so no theme pattern; the category predicate holds with a
\* category id for the patterns whose categories contain it, and without one
\* for the patterns that have no categories property; isResolving is false
\* even while the user patterns are resolving.
C8_SelectPatterns ==
    LET unfiltered == selectPatternsCandidates(Select, Undefined)
        candidates == selectPatternsCandidates(Select, props.syncStatus)
        themeCount == Cardinality(KeptPositions)
    IN  /\ Len(unfiltered) = themeCount + Len(Stored(USER_PATTERNS))
        /\ \A i \in DOMAIN unfiltered :
            IF i <= themeCount
            THEN /\ unfiltered[i].type = "pattern"
                 /\ unfiltered[i].name = ProvidedPatterns[KthKept(i)].name
                 /\ ~Has(unfiltered[i], "syncStatus")
            ELSE /\ unfiltered[i].type = USER_PATTERNS
                 /\ unfiltered[i].patternBlock = Stored(USER_PATTERNS)[i - themeCount]
        /\ \A i \in DOMAIN unfiltered :
            selectPatternsHasCategory(props.categoryId, unfiltered[i], props.categoryId)
                <=> InPatternCategory(unfiltered[i], props.categoryId)
        /\ ~Given(props.syncStatus) => candidates = unfiltered
        /\ Given(props.syncStatus) =>
            /\ \A i \in DOMAIN candidates :
                /\ Has(candidates[i], "syncStatus")
                /\ candidates[i].syncStatus = props.syncStatus
                /\ candidates[i].type # "pattern"
            /\ candidates =
                SelectSeq(unfiltered,
                          LAMBDA pattern :
                              /\ Has(pattern, "patternBlock")
                              /\ SyncStatusOf(pattern.patternBlock) = props.syncStatus)
        /\ props.categoryType = PATTERNS =>
            /\ result.isResolving = FALSE
            /\ \A i \in DOMAIN result.patterns :
                /\ InPatternCategory(result.patterns[i], props.categoryId)
                /\ \E k \in DOMAIN candidates : candidates[k] = result.patterns[i]
            /\ props.search = "" =>
                result.patterns =
                    SelectSeq(candidates,
                              LAMBDA pattern :
                                  InPatternCategory(pattern, props.categoryId))

\* While the user patterns resolve again, a category and a sync status select
\* a user pattern and leave the theme pattern of the same category out.
C8_Witness ==
    /\ props.categoryType = PATTERNS
    /\ USER_PATTERNS \in resolving
    /\ props.syncStatus = "unsynced"
    /\ props.categoryId = "header"
    /\ \E i \in DOMAIN ProvidedPatterns :
        /\ i \in KeptPositions
        /\ InPatternCategory(ProvidedPatterns[i], "header")
    /\ Len(result.patterns) = 1
    /\ result.patterns[1].type = USER_PATTERNS

-----------------------------------------------------------------------------
(* Properties of the hook under every category type *)

NoThemePatterns ==
    /\ \A key \in DOMAIN settings : settings[key] = <<>>
    /\ Has(restBlockPatterns, "patterns") => restBlockPatterns.patterns = <<>>

\* C1: without records for the queried entity (getEntityRecords returns null;
\* the settings and REST pattern lists are missing or empty) the hook returns
\* an empty patterns list, whatever the category id, search and sync status;
\* for an unrecognised category type it returns exactly
\* {patterns: [], isResolving: false}.
C1_NoRecordsNoPatterns ==
    /\ Has(result, "patterns")
    /\ (props.categoryType = TEMPLATE_PARTS /\ ~Has(entityRecords, TEMPLATE_PARTS))
            => result.patterns = <<>>
    /\ (props.categoryType = USER_PATTERNS /\ ~Has(entityRecords, USER_PATTERNS))
            => result.patterns = <<>>
    /\ (props.categoryType = PATTERNS /\ ~Has(entityRecords, USER_PATTERNS)
        /\ NoThemePatterns)
            => result.patterns = <<>>
    /\ props.categoryType \notin {TEMPLATE_PARTS, PATTERNS, USER_PATTERNS}
            => result = [patterns |-> <<>>, isResolving |-> FALSE]

\* The theme and user patterns are asked for, with a category, a search and a
\* sync status, while the user patterns resolve and the pattern lists of the
\* settings and of the REST API are there but empty.
C1_Witness ==
    /\ props.categoryType = PATTERNS
    /\ props.categoryId = "header"
    /\ props.search = "nav"
    /\ props.syncStatus = SYNC_TYPES.unsynced
    /\ ~Has(entityRecords, USER_PATTERNS)
    /\ USER_PATTERNS \in resolving
    /\ Has(settings, "__experimentalAdditionalBlockPatterns")
    /\ Has(restBlockPatterns, "patterns")
    /\ NoThemePatterns
    /\ result.patterns = <<>>

AllFields ==
    {"id", "name", "title", "blocks", "categories", "keywords", "syncStatus",
     "type", "isCustom"}

\* C2 as stated: every returned pattern carries all nine fields.
C2_Original ==
    \A i \in DOMAIN result.patterns : AllFields \subseteq DOMAIN result.patterns[i]

\* C2, amended: every returned pattern carries name, title, blocks and type.
\* Of the nine fields a template-part pattern carries all but syncStatus; a
\* user pattern carries id, name, title, blocks, syncStatus and type, and
\* categories exactly when its record has categories; a theme pattern carries
\* keywords, type and blocks on top of the fields of the provided pattern.
C2_PatternFields ==
    \A i \in DOMAIN result.patterns :
        LET pattern == result.patterns[i]
        IN  /\ {"name", "title", "blocks", "type"} \subseteq DOMAIN pattern
            /\ Has(pattern, "templatePart") =>
                DOMAIN pattern \cap AllFields = AllFields \ {"syncStatus"}
            /\ Has(pattern, "patternBlock") =>
                DOMAIN pattern \cap AllFields =
                    {"id", "name", "title", "blocks", "syncStatus", "type"}
                    \cup (IF pattern.patternBlock.wp_pattern_category # <<>>
                          THEN {"categories"} ELSE {})
            /\ (~Has(pattern, "templatePart") /\ ~Has(pattern, "patternBlock")) =>
                \E k \in DOMAIN ProvidedPatterns :
                    /\ ProvidedPatterns[k].name = pattern.name
                    /\ DOMAIN pattern =
                        DOMAIN ProvidedPatterns[k] \cup {"keywords", "type", "blocks"}

\* A theme pattern and a user pattern returned together.
C2_Witness ==
    /\ props.categoryType = PATTERNS
    /\ Len(result.patterns) = 2
    /\ Has(result.patterns[1], "keywords")
    /\ ~Has(result.patterns[1], "id")
    /\ Has(result.patterns[2], "patternBlock")
    /\ ~Has(result.patterns[2], "categories")

====
